---- MODULE Spec2Model ----
(***************************************************************************)
(* Model of www/orm.py: the pooled execution layer (create_pool, select,   *)
(* execute), the schema registrar (ModelMetaclass) and the methods of      *)
(* Model (save, update, remove, find, findAll, findNumber).                *)
(*                                                                         *)
(* Execution layer.  asyncio is cooperative: a coroutine runs without      *)
(* interruption from one await to the next.  Every action below is one     *)
(* such stretch of select()/execute(): it starts when an awaited driver    *)
(* call returns, raises, or is cancelled, and ends at the next await (or   *)
(* at the end of the call, which includes leaving the "async with          *)
(* __pool.get()" block).  pc[t] names the await the task t is suspended    *)
(* in.  The pool and the database are the aiomysql/MySQL collaborators;    *)
(* they are modelled by their contract: a connection is handed to one      *)
(* caller at a time, created lazily up to maxsize, and goes back to the    *)
(* idle set on release; a transaction left open on a released connection   *)
(* is discarded by the server side.                                        *)
(***************************************************************************)
EXTENDS Integers, Sequences, FiniteSets, TLC

\* ---- bounds of the model ----
NumTasks == 2
MaxSizeArg == 1
MaxAttrs == 2
MaxArgs == 3

\* ---- program constants ----
DefaultMaxsize == 10
DefaultMinsize == 1

Tasks == 1..NumTasks
NoConn == 0
NoTask == 0
Absent == -1

VARIABLES
    opened,        \* the global __pool exists
    kw,            \* the maxsize/minsize keywords create_pool was called with
    minsize, maxsize,
    holder,        \* holder[c]: task the pool handed connection c to, or NoTask
    txOpen,        \* txOpen[c]: an explicit transaction is open on c
    pending,       \* pending[c]: rows written on c and not yet committed
    table,         \* committed rows
    pc,            \* await the task is suspended in
    op,            \* the call in progress: "select" or "execute"
    autocommit,    \* its autocommit argument
    conn,          \* connection bound by "async with __pool.get() as conn"
    cmds,          \* commands issued on the connection by the call in progress
    acked,         \* commands of the call in progress that completed normally
    orig,          \* failure caught by "except BaseException" (or "none")
    result,        \* what reached the caller of the last call: "ok" or the error
    before,        \* the task's row was stored when the current call began
    clsName,       \* name of the class being declared
    tableAttr,     \* its __table__ attribute, or None
    attrs,         \* its other declared attributes, in declaration order
    cls,           \* what the declaration produced
    inst,          \* backing dict of the instance in hand, or NoInst
    sent,          \* statement and arguments last handed to select()/execute()
    ret,           \* how the last Model method ended: what it returned or raised
    row,           \* the row of the mapped table, or NoRow
    other,         \* what the declaration of a second class produced
    callerArgs     \* the list object a caller passes to findAll as args

poolVars == <<opened, kw, minsize, maxsize, holder, txOpen, pending>>
taskVars == <<pc, op, autocommit, conn, cmds, acked, orig, result, before>>
engineVars == <<poolVars, table, taskVars>>
ormVars == <<clsName, tableAttr, attrs, cls, inst, sent, ret, row, other, callerArgs>>
vars == <<engineVars, ormVars>>

Outcomes == {"ok", "error", "cancel"}

Range(q) == {q[i] : i \in 1..Len(q)}

\* the row the statements of task t insert: its primary key is t, so the
\* insert fails with a duplicate-key error once the row is visible
Row(t) == t

Live == Len(holder)
Idle == {c \in 1..Live : holder[c] = NoTask}
CheckedOut == {c \in 1..Live : holder[c] # NoTask}

EngineInit ==
    /\ opened = FALSE
    /\ kw = [maxsize |-> Absent, minsize |-> Absent]
    /\ minsize = 0
    /\ maxsize = 0
    /\ holder = <<>>
    /\ txOpen = <<>>
    /\ pending = <<>>
    /\ table = {}
    /\ pc = [t \in Tasks |-> "idle"]
    /\ op = [t \in Tasks |-> "none"]
    /\ autocommit = [t \in Tasks |-> TRUE]
    /\ conn = [t \in Tasks |-> NoConn]
    /\ cmds = [t \in Tasks |-> <<>>]
    /\ acked = [t \in Tasks |-> {}]
    /\ orig = [t \in Tasks |-> "none"]
    /\ result = [t \in Tasks |-> "none"]
    /\ before = [t \in Tasks |-> FALSE]

\* kw.get that ignores the caller's value
KwGetIgnoresCaller(v, default) == default

\* kw.get(key, default)
KwGet(v, default) == IF v = Absent THEN default ELSE v

\* create_pool(loop, **kw): the pool is opened with minsize connections.
\* The connections are opened with autocommit on (the default of line 31,
\* which the repository's caller, test.py line 6, leaves alone).
CreatePool(kwMaxsize, kwMinsize) ==
    /\ ~opened
    /\ opened' = TRUE
    /\ kw' = [maxsize |-> kwMaxsize, minsize |-> kwMinsize]
    /\ maxsize' = KwGet(kwMaxsize, DefaultMaxsize)
    /\ minsize' = KwGet(kwMinsize, DefaultMinsize)
    /\ holder' = [c \in 1..minsize' |-> NoTask]
    /\ txOpen' = [c \in 1..minsize' |-> FALSE]
    /\ pending' = [c \in 1..minsize' |-> {}]
    /\ UNCHANGED <<table, taskVars, ormVars>>

\* A caller enters select(sql, args) or execute(sql, args, autocommit):
\* log(sql), then "async with __pool.get()" suspends it in the pool.
Call(t, o, ac) ==
    /\ opened
    /\ pc[t] = "idle"
    /\ before' = [before EXCEPT ![t] = Row(t) \in table]
    /\ op' = [op EXCEPT ![t] = o]
    /\ autocommit' = [autocommit EXCEPT ![t] = ac]
    /\ pc' = [pc EXCEPT ![t] = "acquire"]
    /\ cmds' = [cmds EXCEPT ![t] = <<>>]
    /\ acked' = [acked EXCEPT ![t] = {}]
    /\ orig' = [orig EXCEPT ![t] = "none"]
    /\ result' = [result EXCEPT ![t] = "none"]
    /\ UNCHANGED <<poolVars, table, conn, ormVars>>

\* the first await after the connection is bound: conn.begin() when
\* autocommit is false, cur.execute(...) otherwise
FirstCmd(o, ac) == IF o = "execute" /\ ~ac THEN "begin" ELSE "stmt"

\* the pool can hand out a connection: one is idle or one may be created
CanAcquire == Idle # {} \/ Live < maxsize

\* "async with __pool.get() as conn" returns: an idle connection, or a new
\* one while the pool is below maxsize; the coroutine runs on to its first
\* driver await.
Acquire(t) ==
    /\ pc[t] = "acquire"
    /\ CanAcquire
    /\ \/ \E c \in Idle :
            /\ holder' = [holder EXCEPT ![c] = t]
            /\ conn' = [conn EXCEPT ![t] = c]
            /\ UNCHANGED <<txOpen, pending>>
       \/ /\ Idle = {}
          /\ holder' = Append(holder, t)
          /\ txOpen' = Append(txOpen, FALSE)
          /\ pending' = Append(pending, {})
          /\ conn' = [conn EXCEPT ![t] = Live + 1]
    /\ pc' = [pc EXCEPT ![t] = FirstCmd(op[t], autocommit[t])]
    /\ cmds' = [cmds EXCEPT ![t] = <<FirstCmd(op[t], autocommit[t])>>]
    /\ UNCHANGED <<opened, kw, minsize, maxsize, table,
                   op, autocommit, acked, orig, result, before, ormVars>>

\* cancellation of a caller suspended in the pool: no connection was bound
CancelAcquire(t) ==
    /\ pc[t] = "acquire"
    /\ pc' = [pc EXCEPT ![t] = "idle"]
    /\ result' = [result EXCEPT ![t] = "cancel"]
    /\ before' = [before EXCEPT ![t] = FALSE]
    /\ op' = [op EXCEPT ![t] = "none"]
    /\ autocommit' = [autocommit EXCEPT ![t] = TRUE]
    /\ UNCHANGED <<poolVars, table, conn, cmds, acked, orig, ormVars>>

\* a release that happens on the normal path only: an error leaves the
\* connection checked out
ReleaseConnOnSuccessOnly(t, res) ==
    /\ holder' = IF res = "ok" THEN [holder EXCEPT ![conn[t]] = NoTask] ELSE holder
    /\ txOpen' = [txOpen EXCEPT ![conn[t]] = FALSE]
    /\ pending' = [pending EXCEPT ![conn[t]] = {}]
    /\ conn' = [conn EXCEPT ![t] = NoConn]
    /\ pc' = [pc EXCEPT ![t] = "idle"]
    /\ result' = [result EXCEPT ![t] = res]
    /\ op' = [op EXCEPT ![t] = "none"]
    /\ autocommit' = [autocommit EXCEPT ![t] = TRUE]
    /\ cmds' = [cmds EXCEPT ![t] = <<>>]
    /\ acked' = [acked EXCEPT ![t] = {}]
    /\ orig' = [orig EXCEPT ![t] = "none"]
    /\ before' = [before EXCEPT ![t] = FALSE]

\* a call that, when it failed, goes back for a connection and tries again
ReleaseConnAndRetry(t, res) ==
    /\ holder' = [holder EXCEPT ![conn[t]] = NoTask]
    /\ txOpen' = [txOpen EXCEPT ![conn[t]] = FALSE]
    /\ pending' = [pending EXCEPT ![conn[t]] = {}]
    /\ conn' = [conn EXCEPT ![t] = NoConn]
    /\ pc' = [pc EXCEPT ![t] = IF res \in {"ok", "cancel"} THEN "idle" ELSE "acquire"]
    /\ result' = [result EXCEPT ![t] = res]
    /\ op' = [op EXCEPT ![t] = IF res \in {"ok", "cancel"} THEN "none" ELSE @]
    /\ autocommit' = [autocommit EXCEPT ![t] = IF res \in {"ok", "cancel"} THEN TRUE ELSE @]
    /\ cmds' = [cmds EXCEPT ![t] = <<>>]
    /\ acked' = [acked EXCEPT ![t] = {}]
    /\ orig' = [orig EXCEPT ![t] = "none"]
    /\ before' = [before EXCEPT ![t] = FALSE]

\* __aexit__ of "async with __pool.get()": the connection goes back to the
\* idle set and whatever is still uncommitted on it is discarded; the call
\* ends with res (its frame, and with it the record of the call, is gone).
ReleaseConn(t, res) ==
    /\ holder' = [holder EXCEPT ![conn[t]] = NoTask]
    /\ txOpen' = [txOpen EXCEPT ![conn[t]] = FALSE]
    /\ pending' = [pending EXCEPT ![conn[t]] = {}]
    /\ conn' = [conn EXCEPT ![t] = NoConn]
    /\ pc' = [pc EXCEPT ![t] = "idle"]
    /\ result' = [result EXCEPT ![t] = res]
    /\ op' = [op EXCEPT ![t] = "none"]
    /\ autocommit' = [autocommit EXCEPT ![t] = TRUE]
    /\ cmds' = [cmds EXCEPT ![t] = <<>>]
    /\ acked' = [acked EXCEPT ![t] = {}]
    /\ orig' = [orig EXCEPT ![t] = "none"]
    /\ before' = [before EXCEPT ![t] = FALSE]

\* a command issued after the connection was handed back to the pool
IssueOutsidePoolBlock(t, cmd) ==
    /\ pc' = [pc EXCEPT ![t] = cmd]
    /\ cmds' = [cmds EXCEPT ![t] = Append(@, cmd)]
    /\ holder' = [holder EXCEPT ![conn[t]] = NoTask]
    /\ UNCHANGED <<conn, result>>

\* issue the next driver command on the held connection and suspend in it
Issue(t, cmd) ==
    /\ pc' = [pc EXCEPT ![t] = cmd]
    /\ cmds' = [cmds EXCEPT ![t] = Append(@, cmd)]
    /\ UNCHANGED <<holder, conn, result>>

\* the error named by an outcome of command cmd
Err(cmd, out) == IF out = "cancel" THEN "cancel" ELSE cmd

\* "await conn.begin()" (execute, line 56) returns, raises or is cancelled.
\* It is outside the try block: a failure leaves the call at once.
BeginDone(t, out) ==
    /\ pc[t] = "begin"
    /\ IF out = "ok"
       THEN /\ UNCHANGED <<op, autocommit>>
            /\ acked' = [acked EXCEPT ![t] = @ \cup {"begin"}]
            /\ txOpen' = [txOpen EXCEPT ![conn[t]] = TRUE]
            /\ Issue(t, "stmt")
            /\ UNCHANGED <<pending, orig, before>>
       ELSE ReleaseConn(t, Err("begin", out))
    /\ UNCHANGED <<opened, kw, minsize, maxsize, table, ormVars>>

\* rows the statements on connection c see: committed ones and its own
Visible(c) == table \cup pending[c]

\* outcomes the driver can produce for the statement of task t: an insert of a
\* row that is already visible cannot succeed (duplicate key)
StmtOutcomes(t) ==
    IF op[t] = "execute" /\ Row(t) \in Visible(conn[t])
    THEN Outcomes \ {"ok"} ELSE Outcomes

\* a write is committed at once on the (autocommit) connection unless an
\* explicit transaction is open
WriteCommitsAtOnce(c) == ~txOpen[c]

\* after the statement returned (lines 43-49, 60-62, 67): select fetches the
\* buffered rows and returns, execute reads cur.rowcount and, "if not
\* autocommit", awaits conn.commit()
AfterStmt(o, ac) == IF o = "execute" /\ ~ac THEN "commit" ELSE "return"

\* a handler that re-raises without rolling back
OnFailureNoRollback(o, ac) == "raise"

\* a handler that rolls back whatever the autocommit argument
OnFailureAlwaysRollback(o, ac) == "rollback"

\* after the statement or the commit raised (lines 63-66): execute catches
\* BaseException and, "if not autocommit", awaits conn.rollback() before the
\* bare raise; select has no handler
OnFailure(o, ac) == IF o = "execute" /\ ~ac THEN "rollback" ELSE "raise"

\* "await cur.execute(sql.replace('?', '%s'), args)" returns, raises or is
\* cancelled (select line 42, execute line 59), and the coroutine runs on to
\* its next await or to the end of the call.  applied: the server ran the
\* statement.
StmtDone(t, out, applied) ==
    /\ pc[t] = "stmt"
    /\ out \in StmtOutcomes(t)
    /\ LET wrote == op[t] = "execute" /\ applied
           nxt == IF out = "ok" THEN AfterStmt(op[t], autocommit[t])
                  ELSE OnFailure(op[t], autocommit[t])
       IN /\ table' = IF wrote /\ WriteCommitsAtOnce(conn[t])
                      THEN table \cup {Row(t)} ELSE table
          /\ IF nxt \in {"commit", "rollback"}
             THEN /\ pending' = IF wrote /\ ~WriteCommitsAtOnce(conn[t])
                                THEN [pending EXCEPT ![conn[t]] = @ \cup {Row(t)}]
                                ELSE pending
                  /\ acked' = [acked EXCEPT ![t] = IF out = "ok" THEN @ \cup {"stmt"} ELSE @]
                  /\ orig' = [orig EXCEPT ![t] = IF out = "ok" THEN @ ELSE Err("stmt", out)]
                  /\ Issue(t, nxt)
                  /\ UNCHANGED <<txOpen, before, op, autocommit>>
             ELSE ReleaseConn(t, IF out = "ok" THEN "ok" ELSE Err("stmt", out))
    /\ UNCHANGED <<opened, kw, minsize, maxsize, ormVars>>

\* "await conn.commit()" (line 62) returns, raises or is cancelled; on
\* success execute returns affected and leaves the pool block.  applied: the
\* server committed.
CommitDone(t, out, applied) ==
    /\ pc[t] = "commit"
    /\ table' = IF applied THEN table \cup pending[conn[t]] ELSE table
    /\ IF out # "ok" /\ OnFailure(op[t], autocommit[t]) = "rollback"
       THEN /\ orig' = [orig EXCEPT ![t] = Err("commit", out)]
            /\ Issue(t, "rollback")
            /\ pending' = IF applied THEN [pending EXCEPT ![conn[t]] = {}] ELSE pending
            /\ txOpen' = IF applied THEN [txOpen EXCEPT ![conn[t]] = FALSE] ELSE txOpen
            /\ UNCHANGED <<acked, before, op, autocommit>>
       ELSE ReleaseConn(t, IF out = "ok" THEN "ok" ELSE Err("commit", out))
    /\ UNCHANGED <<opened, kw, minsize, maxsize, ormVars>>

\* the error that leaves "except BaseException: await conn.rollback(); raise"
\* (lines 63-66): the bare raise re-raises the caught error only when the
\* rollback returned; an error raised by the rollback itself propagates.
RaisedAfterRollback(t, out) == IF out = "ok" THEN orig[t] ELSE Err("rollback", out)

\* "await conn.rollback()" (line 65) returns, raises or is cancelled.
RollbackDone(t, out) ==
    /\ pc[t] = "rollback"
    /\ ReleaseConn(t, RaisedAfterRollback(t, out))
    /\ UNCHANGED <<opened, kw, minsize, maxsize, table, ormVars>>

\* ------------------------------------------------------------------------
\* Schema registrar (ModelMetaclass) and the record instance
\* ------------------------------------------------------------------------
NoneStr == "None"
NoSent == [by |-> "none", sql |-> <<>>, args |-> <<>>]

\* what a Model method hands back: by names the method, raised the exception
\* ("None" when it returned), rows the affected-row count execute() returned,
\* kind and found/num the returned value
NoRet == [by |-> "none", raised |-> NoneStr, rows |-> 0, kind |-> "none",
          found |-> <<>>, num |-> NoneStr]
Returned(by, rows) == [NoRet EXCEPT !.by = by, !.rows = rows]
Raised(by, error) == [NoRet EXCEPT !.by = by, !.raised = error]

\* Python truth of a string-or-None value ("x or y", "if x:")
Truthy(x) == x \notin {NoneStr, ""}

\* SQL text is a sequence of tokens: literal text, a back-quoted identifier
\* `x`, or the placeholder ?.  Identifiers are drawn from names without '?'.
Kw(text) == [t |-> "sql", v |-> text]
Id(x) == [t |-> "id", v |-> x]
Ph == [t |-> "ph", v |-> "?"]
Comma == Kw(", ")

\* number of '?' in a statement: what sql.replace('?', '%s') turns into the
\* driver's placeholders (select line 42, execute line 59)
Placeholders(sql) == Cardinality({i \in 1..Len(sql) : sql[i] = Ph})

\* sep.join(parts), each part a token sequence
RECURSIVE Join(_, _)
Join(parts, sep) ==
    IF parts = <<>> THEN <<>>
    ELSE IF Len(parts) = 1 THEN parts[1]
    ELSE parts[1] \o <<sep>> \o Join(Tail(parts), sep)

\* the list L of create_args_string after its loop: num times '?'
RECURSIVE ArgsList(_)
ArgsList(num) == IF num <= 0 THEN <<>> ELSE Append(ArgsList(num - 1), <<Ph>>)

\* a create_args_string that is one placeholder short
create_args_string_short(num) == Join(ArgsList(num - 1), Comma)

\* create_args_string(num)
create_args_string(num) == Join(ArgsList(num), Comma)

\* the names an attribute can have, by its place in the class body, and what
\* it can be bound to: a Field (name, primary_key, default; the column type plays no part in
\* the mapping) or anything else (a method, a constant)
AttrNames == <<{"id"}, {"name", "items"}, {"email"}, {"passwd"}>>
Fields ==
    [isField : {TRUE}, name : {NoneStr, "col"}, primary_key : BOOLEAN,
     default : {NoneStr, "d", "gen"}]
NotAField == [isField |-> FALSE, name |-> NoneStr, primary_key |-> FALSE,
              default |-> NoneStr]
AttrValues == Fields \cup {NotAField}
Names == UNION {AttrNames[i] : i \in 1..Len(AttrNames)}

\* names that normal attribute lookup finds on every Model instance, because
\* Model is a dict (line 187): getattr(self, key, ...) returns the bound
\* method and __getattr__ (lines 193-197) is never asked
Inherited == {"items"}
BoundMethod == "<bound method>"

\* class bodies of up to MaxAttrs attributes (an attribute that is not a
\* Field is skipped by the scan whatever its name, so it gets the first name)
NameSeqs(vs) ==
    {f \in [1..Len(vs) -> Names] :
        \A i \in 1..Len(vs) :
            (f[i] \in AttrNames[i]) /\ (f[i] \in Inherited => vs[i].isField)}
AttrSeqs ==
    UNION {{[i \in 1..Len(vs) |-> [k |-> ks[i], v |-> vs[i]]] : ks \in NameSeqs(vs)} :
              vs \in UNION {[1..n -> AttrValues] : n \in 0..MaxAttrs}}

\* values an instance is given: 0 stands for every value that is not None
\* (the code tests values with "is None" only, so a falsy one is the one to try)
Values == {"0"}

\* the backing dict of an instance: every possible key with its value, or
\* Missing when the dict has no such key; NoInst when there is no instance
Missing == "<missing>"
NoInst == [k \in Names |-> "<no instance>"]

\* mappings.get(k): mappings is the dict of line 137, kept as the sequence of
\* its (key, Field) items in insertion order
RECURSIVE MappingGet(_, _)
MappingGet(mappings, k) ==
    IF mappings = <<>> THEN NotAField
    ELSE IF mappings[1].k = k THEN mappings[1].v
    ELSE MappingGet(Tail(mappings), k)

Undeclared ==
    [status |-> "undeclared", error |-> NoneStr, field |-> NoneStr,
     mappings |-> <<>>, table |-> NoneStr, primary_key |-> NoneStr,
     fields |-> <<>>, select |-> <<>>, insert |-> <<>>, update |-> <<>>,
     delete |-> <<>>]

\* an "if primaryKey:" that never finds the key already set
IsDuplicateNever(primaryKey) == FALSE

\* "if primaryKey:" (line 146): a primary key was already found
IsDuplicate(primaryKey) == Truthy(primaryKey)

\* the loop "for k, v in attrs.items()" (lines 140-150) from item i on
RECURSIVE ScanAttrs(_, _, _, _, _)
ScanAttrs(as, i, mappings, fields, primaryKey) ==
    IF i > Len(as)
    THEN [raised |-> NoneStr, field |-> NoneStr, mappings |-> mappings,
          fields |-> fields, primaryKey |-> primaryKey]
    ELSE IF ~as[i].v.isField
    THEN ScanAttrs(as, i + 1, mappings, fields, primaryKey)
    ELSE IF as[i].v.primary_key
    THEN IF IsDuplicate(primaryKey)
         THEN [raised |-> "Duplicate p key", field |-> as[i].k,
               mappings |-> <<>>, fields |-> <<>>, primaryKey |-> NoneStr]
         ELSE ScanAttrs(as, i + 1, Append(mappings, as[i]), fields, as[i].k)
    ELSE ScanAttrs(as, i + 1, Append(mappings, as[i]), Append(fields, as[i].k),
                   primaryKey)

\* the templates of lines 155-169
SelectTemplate(tableName, primaryKey, fields) ==
    <<Kw("select"), Id(primaryKey), Comma>>
        \o Join([i \in 1..Len(fields) |-> <<Id(fields[i])>>], Comma)
        \o <<Kw("from"), Id(tableName)>>

InsertTemplate(tableName, primaryKey, fields) ==
    <<Kw("insert into"), Id(tableName), Kw("(")>>
        \o Join([i \in 1..Len(fields) |-> <<Id(fields[i])>>], Comma)
        \o <<Comma, Id(primaryKey), Kw(") values (")>>
        \o create_args_string(Len(fields) + 1)
        \o <<Kw(")")>>

UpdateTemplate(tableName, primaryKey, fields, mappings) ==
    <<Kw("update"), Id(tableName), Kw("set")>>
        \o Join([i \in 1..Len(fields) |->
                    <<Id(IF Truthy(MappingGet(mappings, fields[i]).name)
                         THEN MappingGet(mappings, fields[i]).name
                         ELSE fields[i]),
                      Kw("="), Ph>>], Comma)
        \o <<Kw("where"), Id(primaryKey), Kw("="), Ph>>

DeleteTemplate(tableName, primaryKey) ==
    <<Kw("delete from"), Id(tableName), Kw("where"), Id(primaryKey), Kw("="), Ph>>

\* ModelMetaclass.__new__(cls, name, bases, attrs): the class it returns or
\* the exception it raises
ModelMetaclassNew(name, tableAttribute, as) ==
    IF name = "Model"
    THEN [Undeclared EXCEPT !.status = "plain"]
    ELSE LET tableName == IF Truthy(tableAttribute) THEN tableAttribute ELSE name
             scan == ScanAttrs(as, 1, <<>>, <<>>, NoneStr)
         IN IF scan.raised # NoneStr
            THEN [Undeclared EXCEPT !.status = "raised", !.error = scan.raised,
                                    !.field = scan.field]
            ELSE IF ~Truthy(scan.primaryKey)
            THEN [Undeclared EXCEPT !.status = "raised",
                                    !.error = "Primary key not found."]
            ELSE [status |-> "created", error |-> NoneStr, field |-> NoneStr,
                  mappings |-> scan.mappings,
                  table |-> tableName,
                  primary_key |-> scan.primaryKey,
                  fields |-> scan.fields,
                  select |-> SelectTemplate(tableName, scan.primaryKey, scan.fields),
                  insert |-> InsertTemplate(tableName, scan.primaryKey, scan.fields),
                  update |-> UpdateTemplate(tableName, scan.primaryKey, scan.fields,
                                            scan.mappings),
                  delete |-> DeleteTemplate(tableName, scan.primaryKey)]

\* the class statement is executed
Declare ==
    /\ cls.status = "undeclared"
    /\ cls' = ModelMetaclassNew(clsName, tableAttr, attrs)
    /\ UNCHANGED <<clsName, tableAttr, attrs, inst, sent, ret, row, other,
                   callerArgs, engineVars>>

\* Model.__init__(**kw): an instance whose backing dict holds the keywords
\* given (one instance is followed)
Construct(kwargs) ==
    /\ cls.status = "created"
    /\ inst = NoInst
    /\ inst' = kwargs
    /\ sent' = NoSent
    /\ ret' = NoRet
    /\ UNCHANGED <<clsName, tableAttr, attrs, cls, row, other, callerArgs, engineVars>>

\* getattr(self, key, None): an inherited attribute if there is one, else
\* through __getattr__ the dict entry, else None
GetValue(d, key) ==
    IF key \in Inherited THEN BoundMethod
    ELSE IF d[key] # Missing THEN d[key] ELSE NoneStr

\* the value getValueOrDefault(key) returns (lines 206-214); a callable
\* default is called and yields a generated value
ValueOrDefault(d, key) ==
    IF GetValue(d, key) # NoneStr THEN GetValue(d, key)
    ELSE LET default == MappingGet(cls.mappings, key).default
         IN IF default = NoneStr THEN NoneStr
            ELSE IF default = "gen" THEN "generated" ELSE default

\* the dict after getValueOrDefault ran for every key of keys: setattr
\* stores each default it resolved (line 213)
WithDefaults(d, keys) ==
    [k \in Names |->
        IF k \in keys /\ GetValue(d, k) = NoneStr /\ ValueOrDefault(d, k) # NoneStr
        THEN ValueOrDefault(d, k) ELSE d[k]]

\* ---- the table behind the record type ----
\* The MySQL table is not part of the repository.  It is taken to be the
\* table the select template assumes: one column per mapped attribute, named
\* as the attribute, the primary-key attribute being its primary key (not
\* null, unique).  One instance is followed, so the table holds at most the
\* row of that instance.
NoRow == [k \in Names |-> "<no row>"]
Columns == {cls.mappings[i].k : i \in 1..Len(cls.mappings)}

\* identifiers of a statement that name columns: all but the table name
TableKw == {Kw("insert into"), Kw("from"), Kw("update"), Kw("delete from")}
RECURSIVE ColumnIds(_, _)
ColumnIds(sql, i) ==
    IF i > Len(sql) THEN <<>>
    ELSE IF sql[i].t = "id" /\ ~(i > 1 /\ sql[i - 1] \in TableKw)
    THEN <<sql[i].v>> \o ColumnIds(sql, i + 1)
    ELSE ColumnIds(sql, i + 1)

\* columns of the select list
SelectList(sql) ==
    LET from == CHOOSE i \in 1..Len(sql) : sql[i] = Kw("from")
    IN Range(ColumnIds(SubSeq(sql, 1, from - 1), 1))

\* the server parses the statement: a comma stands between two items, and
\* "set" is followed by an assignment
SyntaxOk(sql) ==
    \A i \in 1..Len(sql) :
        /\ sql[i] = Comma =>
              /\ i > 1 /\ sql[i - 1].t \in {"id", "ph"}
              /\ i < Len(sql) /\ sql[i + 1].t \in {"id", "ph"}
        /\ sql[i] = Kw("set") => i < Len(sql) /\ sql[i + 1].t = "id"

\* the driver formats the statement with the arguments (one per placeholder,
\* each a value it can encode) and the server accepts it
Runs(sql, args) ==
    /\ Placeholders(sql) = Len(args)
    /\ \A i \in 1..Len(args) : args[i] # BoundMethod
    /\ SyntaxOk(sql)
    /\ Range(ColumnIds(sql, 1)) \subseteq Columns

\* the row matched by the filter `pk`=? bound to pk
Matches(pk) == row # NoRow /\ pk # NoneStr /\ row[cls.primary_key] = pk

\* the row "insert into t (cols) values (args)" stores
NewRow(sql, args) ==
    LET cols == ColumnIds(sql, 1)
    IN [k \in Names |->
           IF k \in Range(cols)
           THEN args[CHOOSE c \in 1..Len(cols) : cols[c] = k]
           ELSE IF k \in Columns THEN NoneStr ELSE Missing]

\* the row after "update t set cols=args where `pk`=last arg"
UpdatedRow(sql, args) ==
    LET cols == ColumnIds(sql, 1)
    IN [k \in Names |->
           IF \E c \in 1..(Len(cols) - 1) : cols[c] = k
           THEN args[CHOOSE c \in 1..(Len(cols) - 1) : cols[c] = k]
           ELSE row[k]]

\* the rows a select with the given select list returns for the stored row
Projection(sql) == [k \in Names |-> IF k \in SelectList(sql) THEN row[k] ELSE Missing]

\* a save() that raises when the affected-row count is not 1
AfterExecuteStrict(by, out, rows) ==
    IF out = "ok" /\ rows = 1 THEN Returned(by, rows) ELSE Raised(by, "driver")

\* the end of save/update/remove (lines 268-270, 275-277, 281-283): the
\* exception of execute() propagates, a row count other than 1 is only logged
AfterExecute(by, out, rows) ==
    IF out = "ok" THEN Returned(by, rows) ELSE Raised(by, "driver")

\* __setattr__ (lines 200-201): self[key] = value, for a regular field
SetAttr(key, value) ==
    /\ inst # NoInst
    /\ key \in Range(cls.fields)
    /\ inst' = [inst EXCEPT ![key] = value]
    /\ UNCHANGED <<clsName, tableAttr, attrs, cls, sent, ret, row, other,
                   callerArgs, engineVars>>

\* a save() that binds the primary key first
SaveArgsKeyFirst ==
    <<ValueOrDefault(inst, cls.primary_key)>>
        \o [i \in 1..Len(cls.fields) |-> ValueOrDefault(inst, cls.fields[i])]

\* the arguments save() builds (lines 266-267)
SaveArgs ==
    [i \in 1..Len(cls.fields) |-> ValueOrDefault(inst, cls.fields[i])]
        \o <<ValueOrDefault(inst, cls.primary_key)>>

\* Model.save (lines 265-270): the arguments are resolved, defaults stored
\* on the instance, and the insert template handed to execute(), which ends
\* with out
Save(out) ==
    /\ inst # NoInst
    /\ LET ran == /\ Runs(cls.insert, SaveArgs)
                  /\ row = NoRow
                  /\ NewRow(cls.insert, SaveArgs)[cls.primary_key] # NoneStr
       IN /\ out = "ok" => ran
          /\ sent' = [by |-> "save", sql |-> cls.insert, args |-> SaveArgs]
          /\ row' = IF out = "ok" THEN NewRow(cls.insert, SaveArgs) ELSE row
          /\ ret' = AfterExecute("save", out, 1)
    /\ inst' = WithDefaults(inst, Range(cls.fields) \cup {cls.primary_key})
    /\ UNCHANGED <<clsName, tableAttr, attrs, cls, other, callerArgs, engineVars>>

\* the arguments update() builds (lines 273-274)
UpdateArgs ==
    [i \in 1..Len(cls.fields) |-> GetValue(inst, cls.fields[i])]
        \o <<GetValue(inst, cls.primary_key)>>

\* Model.update (lines 272-277); the affected-row count is the number of
\* rows the statement changed
Update(out) ==
    /\ inst # NoInst
    /\ out = "ok" => Runs(cls.update, UpdateArgs)
    /\ LET hit == out = "ok" /\ Matches(UpdateArgs[Len(UpdateArgs)])
           new == IF hit THEN UpdatedRow(cls.update, UpdateArgs) ELSE row
       IN /\ row' = new
          /\ ret' = AfterExecute("update", out, IF new # row THEN 1 ELSE 0)
    /\ sent' = [by |-> "update", sql |-> cls.update, args |-> UpdateArgs]
    /\ UNCHANGED <<clsName, tableAttr, attrs, cls, inst, other, callerArgs, engineVars>>

\* Model.remove (lines 279-283)
Remove(out) ==
    /\ inst # NoInst
    /\ LET args == <<GetValue(inst, cls.primary_key)>>
           hit == out = "ok" /\ Matches(args[1])
       IN /\ out = "ok" => Runs(cls.delete, args)
          /\ sent' = [by |-> "remove", sql |-> cls.delete, args |-> args]
          /\ row' = IF hit THEN NoRow ELSE row
          /\ ret' = AfterExecute("remove", out, IF hit THEN 1 ELSE 0)
    /\ UNCHANGED <<clsName, tableAttr, attrs, cls, inst, other, callerArgs, engineVars>>

\* Model.find after select() returned rs (lines 261-263): None, or cls(**rs[0])
FoundOrNone(rs) ==
    IF Len(rs) = 0 THEN [NoRet EXCEPT !.by = "find", !.kind = "None"]
    ELSE [NoRet EXCEPT !.by = "find", !.kind = "instance", !.found = <<rs[1]>>]

\* Model.find(pk) (lines 255-263): one select with the filter on the primary
\* key, fetching at most one row
Find(pk, out) ==
    /\ cls.status = "created"
    /\ LET sql == cls.select \o <<Kw("where"), Id(cls.primary_key), Kw("="), Ph>>
           rs == IF Matches(pk) THEN <<Projection(sql)>> ELSE <<>>
       IN /\ out = "ok" => Runs(sql, <<pk>>)
          /\ sent' = [by |-> "find", sql |-> sql, args |-> <<pk>>]
          /\ ret' = IF out = "ok" THEN FoundOrNone(rs) ELSE Raised("find", "driver")
    /\ UNCHANGED <<clsName, tableAttr, attrs, cls, inst, row, other, callerArgs,
                   engineVars>>

\* a findNumber() that answers an empty result with zero
NumberOrZero(rs) ==
    [NoRet EXCEPT !.by = "findNumber", !.kind = "number",
                  !.num = IF Len(rs) = 0 THEN "0" ELSE rs[1]]

\* Model.findNumber after select() returned rs (lines 251-253), rs[i] being
\* the _num_ column of the i-th row
NumberOrNone(rs) ==
    IF Len(rs) = 0 THEN [NoRet EXCEPT !.by = "findNumber", !.kind = "None"]
    ELSE [NoRet EXCEPT !.by = "findNumber", !.kind = "number", !.num = rs[1]]

\* what the server answers to "select <selectField> _num_ from t [where
\* `pk`=?]", at most one row being fetched: an aggregate yields one row
\* whatever matches, a column one row per matching row
NumRows(selectField, filtered, pk) ==
    LET hit == IF filtered THEN Matches(pk) ELSE row # NoRow
    IN IF selectField = "count(*)" THEN <<IF hit THEN "1" ELSE "0">>
       ELSE IF hit THEN <<row[cls.primary_key]>> ELSE <<>>

\* Model.findNumber(selectField, where, args) (lines 243-253): pk = None
\* stands for a call without where and args
FindNumber(selectField, pk, out) ==
    /\ cls.status = "created"
    /\ LET filtered == pk # NoneStr
           sql == <<Kw("select"), Kw(selectField), Kw("_num_"), Kw("from"), Id(cls.table)>>
                      \o (IF filtered THEN <<Kw("where"), Id(cls.primary_key), Kw("="), Ph>>
                          ELSE <<>>)
           args == IF filtered THEN <<pk>> ELSE <<>>
       IN /\ out = "ok" => Runs(sql, args)
          /\ sent' = [by |-> "findNumber", sql |-> sql, args |-> args]
          /\ ret' = IF out = "ok" THEN NumberOrNone(NumRows(selectField, filtered, pk))
                    ELSE Raised("findNumber", "driver")
    /\ UNCHANGED <<clsName, tableAttr, attrs, cls, inst, row, other, callerArgs,
                   engineVars>>

\* the limit keyword of findAll: None, an int, a tuple, a list or a str
NoLimit == [shape |-> "None", items |-> <<>>]
Limits ==
    {NoLimit,
     [shape |-> "int", items |-> <<"5">>], [shape |-> "int", items |-> <<"0">>],
     [shape |-> "tuple", items |-> <<"0", "5">>],
     [shape |-> "tuple", items |-> <<"5">>],
     [shape |-> "tuple", items |-> <<"0", "5", "5">>],
     [shape |-> "list", items |-> <<"0", "5">>],
     [shape |-> "str", items |-> <<"5">>]}

\* a pair test that takes a tuple of any length
IsPairAnyLength(limit) == limit.shape = "tuple"

\* lines 232 and 235: isinstance(limit, int); isinstance(limit, tuple) and
\* len(limit) == 2
IsCount(limit) == limit.shape = "int"
IsPair(limit) == limit.shape = "tuple" /\ Len(limit.items) = 2

\* the where clause (a token sequence; <<>> is None or '') and the orderBy of
\* the callers: all rows unordered, or the rows with a given primary key,
\* ordered
Queries ==
    {[where |-> <<>>, orderBy |-> NoneStr],
     [where |-> <<Id("id"), Kw("="), Ph>>, orderBy |-> "id desc"]}

\* the caller's list object after findAll built args: "args" is that very
\* object unless the caller passed None (lines 223-224), and append/extend
\* (lines 234, 237) change it in place
AfterBinding(passArgs, args) == IF passArgs THEN args ELSE callerArgs

\* the rows the server returns under a limit clause
WithinLimit(limit) ==
    \/ limit.shape = "None"
    \/ IsCount(limit) /\ limit.items[1] # "0"
    \/ IsPair(limit) /\ limit.items[1] = "0" /\ limit.items[2] # "0"

\* Model.findAll(where, args, orderBy=, limit=) (lines 216-241); passArgs
\* tells whether the caller passes its list or leaves args to its default
FindAll(where, passArgs, orderBy, limit, out) ==
    /\ cls.status = "created"
    /\ LET args0 == IF passArgs THEN callerArgs ELSE <<>>
           sql0 == cls.select
                      \o (IF where # <<>> THEN <<Kw("where")>> \o where ELSE <<>>)
                      \o (IF Truthy(orderBy) THEN <<Kw("order by"), Kw(orderBy)>> ELSE <<>>)
           sql == IF limit.shape = "None" THEN sql0
                  ELSE IF IsCount(limit) THEN sql0 \o <<Kw("limit"), Ph>>
                  ELSE sql0 \o <<Kw("limit"), Ph, Comma, Ph>>
           args == IF limit.shape = "None" THEN args0
                   ELSE IF IsCount(limit) THEN Append(args0, limit.items[1])
                   ELSE args0 \o limit.items
           hit == IF where = <<>> THEN row # NoRow
                  ELSE Len(args0) > 0 /\ Matches(args0[Len(args0)])
           rs == IF hit /\ WithinLimit(limit) THEN <<Projection(sql)>> ELSE <<>>
       IN IF limit.shape = "None" \/ IsCount(limit) \/ IsPair(limit)
          THEN /\ Len(args) <= MaxArgs
               /\ out = "ok" => Runs(sql, args)
               /\ callerArgs' = AfterBinding(passArgs, args)
               /\ sent' = [by |-> "findAll", sql |-> sql, args |-> args]
               /\ ret' = IF out = "ok"
                         THEN [NoRet EXCEPT !.by = "findAll", !.kind = "list", !.found = rs]
                         ELSE Raised("findAll", "driver")
          ELSE /\ out = "error"
               /\ ret' = Raised("findAll", "ValueError")
               /\ UNCHANGED <<sent, callerArgs>>
    /\ UNCHANGED <<clsName, tableAttr, attrs, cls, inst, row, other, engineVars>>

\* class bodies of a second record type: one with a primary key and a regular
\* field, one without a primary key
OtherBodies ==
    {<<[k |-> "id", v |-> [isField |-> TRUE, name |-> NoneStr, primary_key |-> pk,
                          default |-> NoneStr]],
       [k |-> "name", v |-> [isField |-> TRUE, name |-> NoneStr, primary_key |-> FALSE,
                            default |-> NoneStr]]>> : pk \in BOOLEAN}

\* a declaration that writes its result over the first record type
DeclareOtherOverwrites(as) ==
    /\ cls.status # "undeclared"
    /\ other.status = "undeclared"
    /\ other' = ModelMetaclassNew("Blog", NoneStr, as)
    /\ cls' = other'
    /\ UNCHANGED <<clsName, tableAttr, attrs, inst, sent, ret, row, callerArgs,
                   engineVars>>

\* the class statement of a second record type is executed: the metaclass
\* builds its mappings, field list and templates in fresh objects
DeclareOther(as) ==
    /\ cls.status # "undeclared"
    /\ other.status = "undeclared"
    /\ other' = ModelMetaclassNew("Blog", NoneStr, as)
    /\ UNCHANGED <<clsName, tableAttr, attrs, cls, inst, sent, ret, row, callerArgs,
                   engineVars>>

\* no class but Model has been declared
OrmInit ==
    /\ clsName = "Model"
    /\ tableAttr = NoneStr
    /\ attrs = <<>>
    /\ cls = [Undeclared EXCEPT !.status = "plain"]
    /\ inst = NoInst
    /\ sent = NoSent
    /\ ret = NoRet
    /\ row = NoRow
    /\ other = Undeclared
    /\ callerArgs = <<>>

Init == EngineInit /\ OrmInit

\* a class statement about to be executed: its name, its __table__ and its
\* attributes
InitOrm ==
    /\ EngineInit
    /\ clsName \in {"Model", "User"}
    /\ tableAttr \in {NoneStr, "users"}
    /\ attrs \in AttrSeqs
    /\ cls = Undeclared
    /\ inst = NoInst
    /\ sent = NoSent
    /\ ret = NoRet
    /\ row = NoRow
    /\ other = Undeclared
    /\ callerArgs = <<>>

\* the keyword sets an instance is constructed with: values for some of the
\* mapped attributes
Mapped == {cls.mappings[i].k : i \in 1..Len(cls.mappings)}
Kwargs ==
    {[k \in Names |-> IF k \in Mapped THEN given[k] ELSE Missing] :
        given \in [Mapped -> Values \cup {Missing}]}

\* primary keys a caller looks for
Keys == Values \cup {"generated"}

\* how a statement handed to the driver ends for the caller
ExecOutcomes == {"ok", "error"}

\* a record type is declared, an instance of it constructed, saved, updated,
\* removed and looked up by the key it holds
NextOrm ==
    \/ Declare
    \/ \E kwargs \in Kwargs : Construct(kwargs)
    \/ \E out \in ExecOutcomes : Save(out)
    \/ \E out \in ExecOutcomes : Update(out)
    \/ \E out \in ExecOutcomes : Remove(out)
    \/ \E out \in ExecOutcomes :
          /\ inst # NoInst /\ inst[cls.primary_key] # Missing
          /\ Find(inst[cls.primary_key], out)

SpecOrm == InitOrm /\ [][NextOrm]_vars

\* the class User of the application, declared
UserBody ==
    <<[k |-> "id", v |-> [isField |-> TRUE, name |-> NoneStr, primary_key |-> TRUE,
                          default |-> "gen"]],
      [k |-> "name", v |-> [isField |-> TRUE, name |-> NoneStr, primary_key |-> FALSE,
                            default |-> NoneStr]]>>
Declared ==
    /\ EngineInit
    /\ clsName = "User"
    /\ tableAttr = "users"
    /\ attrs = UserBody
    /\ cls = ModelMetaclassNew(clsName, tableAttr, attrs)
    /\ inst = NoInst
    /\ sent = NoSent
    /\ ret = NoRet
    /\ other = Undeclared

\* User is declared and its table empty
InitUser == Declared /\ row = NoRow /\ callerArgs = <<>>

\* every method of User is called, and a second record type declared
NextUser ==
    \/ \E as \in OtherBodies : DeclareOther(as)
    \/ \E kwargs \in Kwargs : Construct(kwargs)
    \/ \E key \in Names, value \in Values : SetAttr(key, value)
    \/ \E out \in ExecOutcomes : Save(out)
    \/ \E out \in ExecOutcomes : Update(out)
    \/ \E out \in ExecOutcomes : Remove(out)
    \/ \E pk \in Keys, out \in ExecOutcomes : Find(pk, out)
    \/ \E f \in {"count(*)", "id"}, pk \in {NoneStr} \cup Values, out \in ExecOutcomes :
          FindNumber(f, pk, out)
    \/ \E out \in ExecOutcomes : FindAll(<<>>, FALSE, NoneStr, NoLimit, out)

SpecUser == InitUser /\ [][NextUser]_vars

\* User is declared, its table empty or holding a row, and a caller queries
\* it with a list of where-arguments it keeps
InitFind ==
    /\ Declared
    /\ row \in {NoRow, [k \in Names |-> IF k \in {"id", "name"} THEN "0" ELSE Missing]}
    /\ callerArgs \in {<<>>, <<"0">>}

NextFind ==
    \E q \in Queries, passArgs \in BOOLEAN, limit \in Limits, out \in ExecOutcomes :
        FindAll(q.where, passArgs, q.orderBy, limit, out)

SpecFind == InitFind /\ [][NextFind]_vars

\* pool configurations of the callers: maxsize given or left to its default,
\* minsize left to its default or set to 0 (no connection opened in advance)
KwMaxsizes == {Absent} \cup (1..MaxSizeArg)
KwMinsizes == {Absent, 0}

\* whether the server ran a command whose caller saw outcome out: a
\* cancelled caller cannot know, a failed command did not run
ServerRan(out) == IF out = "cancel" THEN BOOLEAN ELSE {out = "ok"}

Next ==
    \/ \E mx \in KwMaxsizes, mn \in KwMinsizes :
          /\ KwGet(mn, DefaultMinsize) <= KwGet(mx, DefaultMaxsize)
          /\ CreatePool(mx, mn)
    \/ \E t \in Tasks : Call(t, "select", TRUE)
    \/ \E t \in Tasks, ac \in BOOLEAN : Call(t, "execute", ac)
    \/ \E t \in Tasks : Acquire(t)
    \/ \E t \in Tasks : CancelAcquire(t)
    \/ \E t \in Tasks, out \in Outcomes : BeginDone(t, out)
    \/ \E t \in Tasks, out \in Outcomes :
          \E applied \in ServerRan(out) : StmtDone(t, out, applied)
    \/ \E t \in Tasks, out \in Outcomes :
          \E applied \in ServerRan(out) : CommitDone(t, out, applied)
    \/ \E t \in Tasks, out \in Outcomes : RollbackDone(t, out)

Spec == Init /\ [][Next]_vars

\* Fairness of the event loop and the pool: an awaited driver call comes
\* back, and a caller suspended in the pool gets a connection if one becomes
\* available again and again (waiters are woken in turn).
DriverReturns(t) ==
    \E out \in Outcomes :
        \/ BeginDone(t, out)
        \/ RollbackDone(t, out)
        \/ \E applied \in ServerRan(out) : StmtDone(t, out, applied)
        \/ \E applied \in ServerRan(out) : CommitDone(t, out, applied)

\* the calls on a pool opened with a maxsize the callers can exhaust
NextFair ==
    \/ \E mx \in 1..MaxSizeArg : CreatePool(mx, Absent)
    \/ \E t \in Tasks : Call(t, "select", TRUE)
    \/ \E t \in Tasks, ac \in BOOLEAN : Call(t, "execute", ac)
    \/ \E t \in Tasks : Acquire(t)
    \/ \E t \in Tasks : CancelAcquire(t)
    \/ \E t \in Tasks : DriverReturns(t)

SpecFair ==
    /\ Init /\ [][NextFair]_vars
    /\ \A t \in Tasks : WF_vars(DriverReturns(t)) /\ SF_vars(Acquire(t))

\* ------------------------------------------------------------------------
\* Properties of the execution layer
\* ------------------------------------------------------------------------
InFlight(t) == pc[t] \in {"begin", "stmt", "commit", "rollback"}
ExplicitTx(t) == op[t] = "execute" /\ ~autocommit[t]
Leaves(t) == conn[t] # NoConn /\ conn'[t] = NoConn

\* C1: every call of select and execute gives its connection back whatever
\* its outcome: a connection is checked out only for a task that is inside a
\* call and bound to it, and when no call is in progress no connection is
\* checked out.
C1_ConnectionReleased ==
    /\ \A c \in 1..Live :
          holder[c] # NoTask => InFlight(holder[c]) /\ conn[holder[c]] = c
    /\ \A t \in Tasks : conn[t] # NoConn <=> InFlight(t)
    /\ (\A t \in Tasks : pc[t] = "idle") => CheckedOut = {}

\* calls ended by a raised rollback error and by a cancellation, nothing in
\* progress, a connection exists and none is checked out
C1_Witness ==
    /\ \A t \in Tasks : pc[t] = "idle"
    /\ \E t \in Tasks : result[t] = "rollback"
    /\ \E t \in Tasks : result[t] = "cancel"
    /\ Live >= 1
    /\ CheckedOut = {}

\* C2: execute with autocommit=false whose statement fails (the caller not
\* being cancelled): when the call ends the stored content is what it was
\* before the call, and the error raised is the statement's error.
C2_StatementFailureRolledBack ==
    [][\A t \in Tasks :
          (orig[t] = "stmt" /\ \E out \in {"ok", "error"} : RollbackDone(t, out))
             => /\ result'[t] = "stmt"
                /\ (Row(t) \in table') = before[t]]_vars

\* C3: execute with autocommit=false: when the statement or the commit failed
\* and the rollback fails too, the error that reaches the caller is the
\* original statement/commit error.
C3_RollbackFailureSuppressed ==
    [][\A t \in Tasks :
          (orig[t] \in {"stmt", "commit"} /\ RollbackDone(t, "error"))
             => result'[t] = orig[t]]_vars

\* the command sequences of an explicit transaction
TxSequences ==
    {<<"begin">>, <<"begin", "stmt">>, <<"begin", "stmt", "commit">>,
     <<"begin", "stmt", "rollback">>, <<"begin", "stmt", "commit", "rollback">>}

\* C4: execute with autocommit=false issues begin, then the statement, then
\* commit; the statement is not sent before begin completed and commit is not
\* issued after the statement failed; and whenever the call gives the
\* connection back after begin succeeded, the commit has completed or a
\* rollback has been issued.
C4_TransactionOrder ==
    /\ [](\A t \in Tasks : (ExplicitTx(t) /\ InFlight(t)) =>
             /\ cmds[t] \in TxSequences
             /\ pc[t] = cmds[t][Len(cmds[t])]
             /\ ("stmt" \in Range(cmds[t]) => "begin" \in acked[t])
             /\ ("commit" \in Range(cmds[t]) => "stmt" \in acked[t]))
    /\ [][\A t \in Tasks : (ExplicitTx(t) /\ Leaves(t) /\ "begin" \in acked[t]) =>
             \/ pc[t] = "commit" /\ result'[t] = "ok"
             \/ "rollback" \in Range(cmds[t])]_vars

\* a rollback in flight after a failed commit, and another call that ended
\* with the statement's error after its rollback
C4_Witness ==
    \E t, u \in Tasks :
        /\ ExplicitTx(t) /\ pc[t] = "rollback" /\ orig[t] = "commit"
        /\ pc[u] = "idle" /\ result[u] = "stmt"

\* C5: begin, commit and rollback are issued only by execute with
\* autocommit=false: select and execute with autocommit=true issue the
\* statement alone, and when it fails the call ends there with that error.
C5_NoTransactionCommands ==
    /\ [](\A t \in Tasks : ~ExplicitTx(t) =>
             /\ cmds[t] \in {<<>>, <<"stmt">>}
             /\ pc[t] \in {"idle", "acquire", "stmt"})
    /\ [][\A t \in Tasks : (~ExplicitTx(t) /\ StmtDone(t, "error", FALSE)) =>
             pc'[t] = "idle" /\ result'[t] = "stmt"]_vars

\* an execute with autocommit=true has its statement in flight after a call
\* that ended with its statement's error
C5_Witness ==
    \E t, u \in Tasks :
        /\ op[t] = "execute" /\ autocommit[t] /\ pc[t] = "stmt" /\ cmds[t] = <<"stmt">>
        /\ pc[u] = "idle" /\ result[u] = "stmt"

\* C6: a connection is bound to at most one task; with maxsize 1 at most one
\* call has a command in flight, and a task gets the connection only when no
\* other call is between its acquire and its release.
C6_ConnectionExclusive ==
    /\ [](\A t, u \in Tasks : (t # u /\ conn[t] # NoConn) => conn[t] # conn[u])
    /\ []((opened /\ maxsize = 1) => Cardinality({t \in Tasks : InFlight(t)}) <= 1)
    /\ [][\A t \in Tasks :
            (maxsize = 1 /\ conn[t] = NoConn /\ conn'[t] # NoConn) =>
                \A u \in Tasks \ {t} : ~InFlight(u) /\ conn[u] = NoConn]_vars

\* maxsize 1, one save-like execute with its statement in flight, another
\* suspended in the pool
C6_Witness ==
    /\ maxsize = 1
    /\ \E t, u \in Tasks :
          /\ op[t] = "execute" /\ autocommit[t] /\ pc[t] = "stmt"
          /\ op[u] = "execute" /\ autocommit[u] /\ pc[u] = "acquire"

\* C7: once the pool is opened it has at least minsize and at most maxsize
\* live connections, where minsize and maxsize are the caller's values or
\* the defaults 1 and 10.
C7_PoolSize ==
    opened =>
        /\ maxsize = (IF kw.maxsize = Absent THEN 10 ELSE kw.maxsize)
        /\ minsize = (IF kw.minsize = Absent THEN 1 ELSE kw.minsize)
        /\ minsize <= Live
        /\ Live <= maxsize

\* the pool is full (maxsize given by the caller), every connection is
\* checked out and a further caller is waiting
C7_Witness ==
    /\ opened /\ kw.maxsize # Absent /\ Live = maxsize
    /\ Idle = {}
    /\ \E t \in Tasks : pc[t] = "acquire"

\* a caller suspended in the pool while no connection is idle and none may
\* be created
Suspended(t) == pc[t] = "acquire" /\ ~CanAcquire

\* while it is suspended a caller is bound to no connection and issues nothing
C8_NoStatementWhileSuspended ==
    [][\A t \in Tasks : Suspended(t) => conn'[t] = NoConn /\ cmds'[t] = <<>>]_vars

\* C8 as stated: a suspended caller issues nothing until a connection is
\* released, and every suspended caller eventually acquires a connection and
\* completes.
C8_SuspendedEventuallyAcquires ==
    /\ C8_NoStatementWhileSuspended
    /\ \A t \in Tasks : Suspended(t) ~> (conn[t] # NoConn)
    /\ \A t \in Tasks : InFlight(t) ~> (pc[t] = "idle")

\* C8 amended: a suspended caller issues nothing until a connection is
\* released, and every suspended caller eventually acquires a connection
\* unless it is cancelled while it waits; a caller that acquired one completes.
C8_SuspendedAcquiresUnlessCancelled ==
    /\ C8_NoStatementWhileSuspended
    /\ \A t \in Tasks :
          Suspended(t) ~> (conn[t] # NoConn \/ (pc[t] = "idle" /\ result[t] = "cancel"))
    /\ \A t \in Tasks : InFlight(t) ~> (pc[t] = "idle")

\* a caller suspended behind a statement in flight on the only connection
C8_Witness ==
    \E t, u \in Tasks : Suspended(t) /\ pc[u] = "stmt" /\ Live = maxsize

\* ------------------------------------------------------------------------
\* Properties of the schema registrar and of the argument lists
\* ------------------------------------------------------------------------
\* the declared attributes that are primary-key Fields, by position
PkIndexes == {i \in 1..Len(attrs) : attrs[i].v.isField /\ attrs[i].v.primary_key}
SecondPk == CHOOSE i \in PkIndexes : Cardinality({j \in PkIndexes : j < i}) = 1

\* N: the declared attributes that are Fields and not primary keys
RegularCount ==
    Cardinality({i \in 1..Len(attrs) : attrs[i].v.isField /\ ~attrs[i].v.primary_key})

\* no type came out of the declaration: no mapping, no template, and so no
\* instance and no statement
NoTypeCreated ==
    /\ cls.mappings = <<>> /\ cls.fields = <<>> /\ cls.primary_key = NoneStr
    /\ cls.select = <<>> /\ cls.insert = <<>> /\ cls.update = <<>> /\ cls.delete = <<>>
    /\ inst = NoInst /\ sent = NoSent

\* C9: a class other than Model declared without a primary-key Field fails
\* with the missing-primary-key error, one with two or more fails with the
\* duplicate-primary-key error naming the second such attribute, and in both
\* cases no type exists; with exactly one the declaration succeeds.
C9_PrimaryKeyChecked ==
    (cls.status # "undeclared" /\ clsName # "Model") =>
        /\ Cardinality(PkIndexes) = 0 =>
              /\ cls.status = "raised" /\ cls.error = "Primary key not found."
              /\ NoTypeCreated
        /\ Cardinality(PkIndexes) >= 2 =>
              /\ cls.status = "raised" /\ cls.error = "Duplicate p key"
              /\ cls.field = attrs[SecondPk].k
              /\ NoTypeCreated
        /\ Cardinality(PkIndexes) = 1 => cls.status = "created"

\* a declaration with two primary-key Fields has been refused
C9_Witness ==
    /\ clsName # "Model" /\ Cardinality(PkIndexes) = 2
    /\ cls.status = "raised" /\ cls.field = attrs[SecondPk].k

\* C10: for a record type with one primary key and N regular fields the
\* insert and update templates have N+1 placeholders and the delete template
\* has 1, and save(), update() and remove() hand over N+1, N+1 and 1
\* arguments, as many as their statement has placeholders.
C10_PlaceholdersMatchArguments ==
    (cls.status = "created" /\ Cardinality(PkIndexes) = 1) =>
        /\ Placeholders(cls.insert) = RegularCount + 1
        /\ Placeholders(cls.update) = RegularCount + 1
        /\ Placeholders(cls.delete) = 1
        /\ sent.by = "save" => Len(sent.args) = RegularCount + 1
        /\ sent.by = "update" => Len(sent.args) = RegularCount + 1
        /\ sent.by = "remove" => Len(sent.args) = 1
        /\ sent.by # "none" => Placeholders(sent.sql) = Len(sent.args)

\* save() has handed over the insert statement of a type with a regular field
C10_Witness ==
    /\ cls.status = "created" /\ RegularCount >= 1
    /\ sent.by = "save" /\ sent.sql = cls.insert

\* ------------------------------------------------------------------------
\* Properties of the Model methods
\* ------------------------------------------------------------------------
\* the declaration as the class body states it: the regular fields in
\* declaration order, the primary key, and the Field of an attribute
IsRegular(a) == a.v.isField /\ ~a.v.primary_key
DeclaredFields == [i \in 1..Len(SelectSeq(attrs, IsRegular)) |-> SelectSeq(attrs, IsRegular)[i].k]
DeclaredKey == attrs[CHOOSE i \in PkIndexes : TRUE].k
FieldOf(k) == attrs[CHOOSE i \in 1..Len(attrs) : attrs[i].k = k].v

\* the effective value of a field: the value set on the instance if there
\* is one, else the field's default (a generator being called), else null
EffectiveValue(d, k) ==
    IF d[k] # Missing THEN d[k]
    ELSE IF FieldOf(k).default = "gen" THEN "generated"
    ELSE FieldOf(k).default

\* C11: save() binds the effective value of each regular field in declaration
\* order and then that of the primary key, the order of the column list of
\* the insert template; the effective value is the value set on the
\* instance if present, else the field's default, else null.
C11_SaveBindsEffectiveValues ==
    [][(\E out \in ExecOutcomes : Save(out)) =>
          /\ sent'.args =
                [i \in 1..Len(DeclaredFields) |-> EffectiveValue(inst, DeclaredFields[i])]
                    \o <<EffectiveValue(inst, DeclaredKey)>>
          /\ ColumnIds(sent'.sql, 1) = DeclaredFields \o <<DeclaredKey>>]_vars

\* the value the instance d holds for field k, null when it holds none
Held(d, k) == IF d[k] # Missing THEN d[k] ELSE NoneStr

LastTokens(sql, n) == SubSeq(sql, Len(sql) - n + 1, Len(sql))

\* the where-arguments a findAll call is given
Supplied(passArgs) == IF passArgs THEN callerArgs ELSE <<>>

\* C13: findAll with a single count ends its statement with 'limit ?' and
\* binds the count after the where-arguments; with a pair (offset, count) it
\* ends it with 'limit ?, ?' and binds offset then count after them; without
\* a limit it adds no limit clause and binds the where-arguments only; with
\* a limit of any other shape it raises the caller error and nothing is sent
\* and no connection touched.
C13_LimitClause ==
    [][\A q \in Queries, passArgs \in BOOLEAN, limit \in Limits, out \in ExecOutcomes :
          FindAll(q.where, passArgs, q.orderBy, limit, out) =>
              /\ (limit.shape = "int") =>
                    /\ LastTokens(sent'.sql, 2) = <<Kw("limit"), Ph>>
                    /\ sent'.args = Supplied(passArgs) \o <<limit.items[1]>>
              /\ (limit.shape = "tuple" /\ Len(limit.items) = 2) =>
                    /\ LastTokens(sent'.sql, 4) = <<Kw("limit"), Ph, Comma, Ph>>
                    /\ sent'.args = Supplied(passArgs) \o <<limit.items[1], limit.items[2]>>
              /\ (limit.shape = "None") =>
                    /\ Kw("limit") \notin Range(sent'.sql)
                    /\ sent'.args = Supplied(passArgs)
              /\ (limit.shape \in {"list", "str"}
                    \/ (limit.shape = "tuple" /\ Len(limit.items) # 2)) =>
                    /\ ret'.raised = "ValueError"
                    /\ sent' = sent
                    /\ UNCHANGED engineVars]_vars

\* a findAll that was given one where-argument and a pair as limit has sent
\* its statement
C13_Witness ==
    /\ sent.by = "findAll" /\ ret.raised = NoneStr
    /\ LastTokens(sent.sql, 4) = <<Kw("limit"), Ph, Comma, Ph>>
    /\ sent.args = <<"0", "0", "5">>

\* C14: update() binds, for each regular field in declaration order and then
\* the primary key, the value the instance holds, null for a field it does
\* not hold, never a default; update() and remove() leave the backing
\* mapping as it was, and save() only adds the resolved default of a field
\* that was unset.
C14_UpdateBindsHeldValues ==
    [][/\ (\E out \in ExecOutcomes : Update(out)) =>
             /\ sent'.args =
                   [i \in 1..Len(DeclaredFields) |-> Held(inst, DeclaredFields[i])]
                       \o <<Held(inst, DeclaredKey)>>
             /\ inst' = inst
       /\ (\E out \in ExecOutcomes : Remove(out)) => inst' = inst
       /\ (\E out \in ExecOutcomes : Save(out)) =>
             \A k \in Names :
                 \/ inst'[k] = inst[k]
                 \/ /\ inst[k] = Missing
                    /\ k \in Range(DeclaredFields) \cup {DeclaredKey}
                    /\ inst'[k] = EffectiveValue(inst, k)
                    /\ inst'[k] # NoneStr]_vars

\* C15: save(), update() and remove() raise exactly when execute() raised,
\* whatever the affected-row count; an update() that follows a remove() on
\* the same instance, its statement running without a driver error, returns
\* normally and the row stays absent.
C15_RowCountNeverRaises ==
    [][/\ \A out \in ExecOutcomes :
             (Save(out) \/ Update(out) \/ Remove(out)) =>
                 (ret'.raised # NoneStr <=> out = "error")
       /\ (sent.by = "remove" /\ ret.raised = NoneStr /\ Update("ok")) =>
             /\ ret'.raised = NoneStr
             /\ row' = NoRow]_vars

\* update() returned normally with no row affected: the instance was saved
\* (it holds the generated key) and its row is gone
C15_Witness ==
    /\ sent.by = "update" /\ ret.by = "update"
    /\ ret.raised = NoneStr /\ ret.rows = 0
    /\ inst[cls.primary_key] = "generated" /\ row = NoRow

\* C16: find(pk) returns None when no row has that primary key and otherwise
\* an instance holding the columns of the matching row; findNumber returns
\* None (not a number, not an error) when its query yields no row and
\* otherwise the _num_ value of the first row.
C16_AbsentIsNone ==
    [][/\ \A pk \in Keys :
             Find(pk, "ok") =>
                 IF row # NoRow /\ row[DeclaredKey] = pk
                 THEN /\ ret'.kind = "instance" /\ ret'.raised = NoneStr
                      /\ \A k \in Range(DeclaredFields) \cup {DeclaredKey} :
                             ret'.found[1][k] = row[k]
                 ELSE ret'.kind = "None" /\ ret'.raised = NoneStr
       /\ \A f \in {"count(*)", "id"}, pk \in {NoneStr} \cup Values :
             FindNumber(f, pk, "ok") =>
                 /\ ret'.raised = NoneStr
                 /\ IF NumRows(f, pk # NoneStr, pk) = <<>>
                    THEN ret'.kind = "None"
                    ELSE /\ ret'.kind = "number"
                         /\ ret'.num = NumRows(f, pk # NoneStr, pk)[1]]_vars

\* findNumber on a column returned None from a table whose only row has
\* another key
C16_Witness ==
    /\ ret.by = "findNumber" /\ ret.kind = "None" /\ ret.raised = NoneStr
    /\ sent.args = <<"0">> /\ row # NoRow

\* C17: once the record type is declared, its table name, field mapping,
\* primary-key name, regular-field list and four templates stay what the
\* declaration made them, whatever is constructed, set, saved, updated,
\* removed or queried, and whatever other record type is declared.
C17_MetadataFrozen ==
    [][cls.status = "created" =>
          /\ cls'.table = cls.table
          /\ cls'.mappings = cls.mappings
          /\ cls'.primary_key = cls.primary_key
          /\ cls'.fields = cls.fields
          /\ cls'.select = cls.select /\ cls'.insert = cls.insert
          /\ cls'.update = cls.update /\ cls'.delete = cls.delete]_vars

\* a second record type has been declared and the instance, holding a
\* default that save() stored, has been updated
C17_Witness ==
    /\ cls.status = "created" /\ other.status = "created"
    /\ inst # NoInst /\ inst[cls.primary_key] = "generated"
    /\ sent.by = "update" /\ sent.sql = cls.update

\* number of times command cmd occurs in a command sequence
Count(q, cmd) == Cardinality({i \in 1..Len(q) : q[i] = cmd})

\* C18: nothing is retried.  A call gets a connection only while it waits for
\* one, before any command, and gives it back only by ending, so it acquires
\* at most once; it sends its statement exactly once when it gets that far;
\* and once the statement or the commit failed, the only command it still
\* issues is the rollback of its explicit transaction.
C18_NoRetry ==
    /\ [](\A t \in Tasks :
             /\ Count(cmds[t], "stmt") <= 1
             /\ (pc[t] \in {"stmt", "commit"} \/ "stmt" \in acked[t]) =>
                   Count(cmds[t], "stmt") = 1)
    /\ [][\A t \in Tasks :
             /\ (conn[t] = NoConn /\ conn'[t] # NoConn) =>
                   pc[t] = "acquire" /\ cmds[t] = <<>>
             /\ Leaves(t) => pc'[t] = "idle"
             /\ (orig[t] # "none" /\ cmds'[t] # cmds[t] /\ cmds'[t] # <<>>) =>
                   /\ ExplicitTx(t)
                   /\ cmds'[t] = Append(cmds[t], "rollback")]_vars

\* a call whose statement failed is rolling back, having sent the statement
\* once, while another call has ended with its statement's error
C18_Witness ==
    \E t, u \in Tasks :
        /\ pc[t] = "rollback" /\ orig[t] = "stmt"
        /\ cmds[t] = <<"begin", "stmt", "rollback">>
        /\ pc[u] = "idle" /\ result[u] = "stmt" /\ conn[u] = NoConn

\* C19: the select, insert and update templates name every declared field,
\* regular or primary key, by the same column identifier, whether or not its
\* Field carries a name of its own.
C19_SameColumnInEveryTemplate ==
    (cls.status = "created") =>
        LET sel == ColumnIds(cls.select, 1)
            ins == ColumnIds(cls.insert, 1)
            upd == ColumnIds(cls.update, 1)
            n == Len(DeclaredFields)
        IN /\ Len(sel) = n + 1 /\ Len(ins) = n + 1 /\ Len(upd) = n + 1
           /\ sel[1] = ins[n + 1] /\ ins[n + 1] = upd[n + 1]
           /\ \A i \in 1..n : sel[i + 1] = ins[i] /\ ins[i] = upd[i]

\* C20: findAll leaves the args list of its caller as it was given, so that
\* a later call passing the same list binds the same values again, one per
\* placeholder.
C20_CallerArgsUnchanged ==
    [][\A q \in Queries, passArgs \in BOOLEAN, limit \in Limits, out \in ExecOutcomes :
          FindAll(q.where, passArgs, q.orderBy, limit, out) =>
              /\ callerArgs' = callerArgs
              /\ (Placeholders(q.where) = Len(Supplied(passArgs)) /\ sent' # sent) =>
                    Placeholders(sent'.sql) = Len(sent'.args)]_vars
====
